---- MODULE Spec2Model ----
(***************************************************************************)
(* A model of pants' AnalysisExtraction task                              *)
(* (src/python/pants/backend/jvm/tasks/analysis_extraction.py).            *)
(*                                                                         *)
(* One "run" is one pants invocation: a fresh product store, a choice of   *)
(* required product kinds, and one call of AnalysisExtraction.execute().   *)
(* The on-disk state (summary files, the invalidation framework's record   *)
(* of valid fingerprints) survives from run to run.                        *)
(***************************************************************************)
EXTENDS Integers, Sequences, FiniteSets, TLC

\* ------------------------------------------------------------------ bounds
NumTargets == 2
MaxFp == 2
MaxClasspath == 3
MaxZinc == 2
NumNodes == 3

Targets == 1..NumTargets
Fingerprints == 1..MaxFp

\* The two product kinds of product_types().
Kinds == {"classes_by_source", "product_deps_by_src"}

\* Non-zero exit statuses of the external tool.
FailureCodes == {1, 2}

VARIABLES
  pc,            \* where execute() is: idle, tool, loop, done, failed, interrupted
  required,      \* product kinds some downstream consumer requires in this run
  products,      \* context.products' data: typename -> map, for created typenames
  all_vts,       \* invalidation_check.all_vts: the targets in iteration order
  vt_valid,      \* vt.valid of each target, as the invalidation check reported it
  idx,           \* position of the for loop in all_vts
  fingerprint,   \* each target's current fingerprint
  lastValid,     \* per target, the fingerprint the framework recorded valid (0: none)
  summaryFile,   \* per target, the summary.json in the results dir of its fingerprint
  toolArgs,      \* the arguments of the tool invocation in progress
  error,         \* the exception execute() ended with
  log,           \* this run's events, in order
  contrib,       \* this run: what each target's merge added to each map
  prev,          \* the previous run's contributions, when it completed and merged
  invoked,       \* targets for whose current fingerprint the tool was invoked, in any run
  reinvoked,     \* the tool was invoked a second time for some target fingerprint
  upstream,      \* a resolution of upstream analysis: its arguments and its result
  sortTask       \* the sort task: graph, targets, roots, and what each option value emitted

vars == <<pc, required, products, all_vts, vt_valid, idx, fingerprint, lastValid,
          summaryFile, toolArgs, error, log, contrib, prev, invoked, reinvoked, upstream,
          sortTask>>

\* ------------------------------------------------------- fixed inputs
\* The build root of get_buildroot(), as path components.
BuildRoot == <<"root">>

\* zinc_analysis[target]: (classes dir, runtime classpath entry, analysis file).
ZincAnalysis(t) ==
  << "classes" \o ToString(t), "lib" \o ToString(t) \o ".jar", ToString(t) \o ".analysis" >>

\* Zinc.compile_classpath(products, 'runtime_classpath', target): a third-party jar
\* without analysis, then the jars of the targets the target depends on.
RECURSIVE DepJars(_)
DepJars(n) == IF n = 0 THEN <<>> ELSE Append(DepJars(n - 1), ZincAnalysis(n)[2])

TargetClasspath(t) == <<"libX.jar">> \o DepJars(t - 1)

\* What the (deterministic) external tool writes for a target at a fingerprint:
\* every target compiles the shared source and a source of its own.
ToolSummary(t, fp) ==
  [ products |->
      [ a \in { <<"root", "src", "Shared.scala">>, <<"root", "src", ToString(t)>> } |->
          IF a[3] = "Shared.scala"
            THEN { <<"Shared.class", t, fp>> }
            ELSE { <<"Own.class", t, fp>>, <<"Own$.class", t, fp>> } ],
    dependencies |-> <<"edges", t, fp>> ]

\* A summary.json on disk.
NoFile == [exists |-> FALSE, parseable |-> FALSE, json |-> <<>>]
PartialFile == [exists |-> TRUE, parseable |-> FALSE, json |-> <<>>]
CompleteFile(json) == [exists |-> TRUE, parseable |-> TRUE, json |-> json]

\* What a tool that exits with status 0 can have left at the summary path: the
\* documented summary, one without the dependencies section, one without the
\* products section, or text that is not JSON.
WrittenFiles(json) ==
  { CompleteFile(json),
    CompleteFile([k \in {"products"} |-> json[k]]),
    CompleteFile([k \in {"dependencies"} |-> json[k]]),
    PartialFile }

NoError == [kind |-> "none", target |-> 0, exit_code |-> 0]
NoArgs == [summary_json |-> <<0, 0>>, analysis_cache |-> "", classpath |-> "",
           analysis_map |-> ""]
NoUpstream == [target_classpath |-> <<>>, zinc_values |-> <<>>, resolved |-> FALSE,
               pairs |-> <<>>, analysis_map |-> ""]
NoSort == [graph |-> {}, targets |-> {}, target_roots |-> {}, order |-> <<>>,
           ran |-> {}, out |-> [r \in BOOLEAN |-> <<>>],
           error |-> [r \in BOOLEAN |-> "none"]]
NoPrev == [ok |-> FALSE, required |-> {}, same |-> {}, contrib |-> [t \in Targets |-> <<>>]]

\* f with key k bound to v (a dict assignment).
Put(f, k, v) == [x \in DOMAIN f \cup {k} |-> IF x = k THEN v ELSE f[x]]

\* ------------------------------------------------------ pure functions
Min(a, b) == IF a <= b THEN a ELSE b

\* os.path.relpath(path, start) on absolute paths given as component sequences:
\* one ".." per component of start past the common prefix, then the rest of path.
CommonPrefixLen(p, q) ==
  CHOOSE k \in 0..Min(Len(p), Len(q)) :
    /\ \A i \in 1..k : p[i] = q[i]
    /\ k < Min(Len(p), Len(q)) => p[k + 1] # q[k + 1]

RelPath(path, start) ==
  LET c == CommonPrefixLen(path, start)
      ups == [i \in 1..(Len(start) - c) |-> ".."]
      rel == ups \o SubSeq(path, c + 1, Len(path))
  IN IF rel = <<>> THEN <<".">> ELSE rel

\* sep.join(strs)
RECURSIVE JoinStr(_, _)
JoinStr(strs, sep) ==
  IF strs = <<>> THEN ""
  ELSE IF Len(strs) = 1 THEN strs[1]
  ELSE strs[1] \o sep \o JoinStr(Tail(strs), sep)

\* dict.get(k): None when the key is absent.
DictGet(m, k) ==
  IF k \in DOMAIN m THEN [some |-> TRUE, val |-> m[k]] ELSE [some |-> FALSE, val |-> ""]

\* {cp_entry: analysis_file for _, cp_entry, analysis_file in values}: a later value
\* with the same classpath entry replaces an earlier one.
RECURSIVE AnalysisByRuntimeEntry(_)
AnalysisByRuntimeEntry(values) ==
  IF values = <<>> THEN <<>>
  ELSE LET last == values[Len(values)]
       IN Put(AnalysisByRuntimeEntry(SubSeq(values, 1, Len(values) - 1)), last[2], last[3])

\* Mutant: the generator yields a pair for every classpath entry.
RECURSIVE UpstreamAnalysisKeepsAll(_, _)
UpstreamAnalysisKeepsAll(target_classpath, analysis_by_cp_entry) ==
  IF target_classpath = <<>> THEN <<>>
  ELSE LET entry == Head(target_classpath)
           analysis_file == DictGet(analysis_by_cp_entry, entry)
       IN << <<entry, IF analysis_file.some THEN analysis_file.val ELSE "None">> >>
          \o UpstreamAnalysisKeepsAll(Tail(target_classpath), analysis_by_cp_entry)

\* list(self._upstream_analysis(target_classpath, analysis_by_cp_entry))
RECURSIVE UpstreamAnalysis(_, _)
UpstreamAnalysis(target_classpath, analysis_by_cp_entry) ==
  IF target_classpath = <<>> THEN <<>>
  ELSE LET entry == Head(target_classpath)
           analysis_file == DictGet(analysis_by_cp_entry, entry)
           rest == UpstreamAnalysis(Tail(target_classpath), analysis_by_cp_entry)
       IN IF analysis_file.some THEN << <<entry, analysis_file.val>> >> \o rest ELSE rest

\* ','.join('{}:{}'.format(k, v) for k, v in upstream_analysis)
AnalysisMapArg(upstream_analysis) ==
  JoinStr([i \in 1..Len(upstream_analysis) |->
             upstream_analysis[i][1] \o ":" \o upstream_analysis[i][2]], ",")

\* zinc_analysis.values() of the run's targets.
ZincValues == [t \in Targets |-> ZincAnalysis(t)]

\* The args list _extract_analysis builds (the pass-through rebase-map arguments of
\* the environment are not part of the model).
ExtractArgs(t, summary_json_file) ==
  [ summary_json |-> summary_json_file,
    analysis_cache |-> ZincAnalysis(t)[3],
    classpath |-> JoinStr(TargetClasspath(t), ":"),
    analysis_map |->
      AnalysisMapArg(UpstreamAnalysis(TargetClasspath(t), AnalysisByRuntimeEntry(ZincValues))) ]

\* raise TaskError(...): the names the module binds are those of its imports and its
\* class; evaluating a name that is not bound raises NameError instead.
ModuleNames ==
  { "json", "os", "defaultdict", "DependencyContext", "Zinc", "NailgunTask",
    "get_buildroot", "WorkUnitLabel", "MultipleRootedProducts", "JarDependency",
    "memoized_property", "AnalysisExtraction" }

RaiseTaskError(t, result) ==
  IF "TaskError" \in ModuleNames
    THEN [kind |-> "TaskError", target |-> t, exit_code |-> result]
    ELSE [kind |-> "NameError", target |-> 0, exit_code |-> 0]

\* ------------------------------------------------------- product store
\* products.is_required_data(typename)
IsRequiredData(typename) == typename \in required

\* products.safe_create_data(typename, init_func): creates the (empty) map unless the
\* store already holds one.
SafeCreateData(prods, typename) ==
  IF typename \in DOMAIN prods THEN prods ELSE Put(prods, typename, <<>>)

\* products.get_data(typename): None when the typename was never created.
HasData(prods, typename) == typename \in DOMAIN prods

\* Mutant: the maps are created as required, but the method always answers True.
CreateProductsAlwaysRuns(prods) ==
  LET p1 == IF IsRequiredData("classes_by_source")
              THEN SafeCreateData(prods, "classes_by_source") ELSE prods
      p2 == IF IsRequiredData("product_deps_by_src")
              THEN SafeCreateData(p1, "product_deps_by_src") ELSE p1
  IN [should_run |-> TRUE, products |-> p2]

\* Mutant: when either kind is required, both maps are created.
CreateProductsCreatesBoth(prods) ==
  LET should_run == IsRequiredData("classes_by_source")
                      \/ IsRequiredData("product_deps_by_src")
  IN [ should_run |-> should_run,
       products |-> IF should_run
                      THEN SafeCreateData(SafeCreateData(prods, "classes_by_source"),
                                          "product_deps_by_src")
                      ELSE prods ]

\* _create_products_if_should_run on the store prods.
CreateProductsIfShouldRun(prods) ==
  LET p1 == IF IsRequiredData("classes_by_source")
              THEN SafeCreateData(prods, "classes_by_source") ELSE prods
      p2 == IF IsRequiredData("product_deps_by_src")
              THEN SafeCreateData(p1, "product_deps_by_src") ELSE p1
  IN [ should_run |-> IsRequiredData("classes_by_source")
                        \/ IsRequiredData("product_deps_by_src"),
       products |-> p2 ]

\* classes_by_source[source].add_abs_paths(root, classes) for a defaultdict bucket:
\* the bucket keeps what it held and gains the classes, tagged with their root.
AddAbsPaths(cbs, source, root, classes) ==
  LET old == IF source \in DOMAIN cbs THEN cbs[source] ELSE {}
  IN Put(cbs, source, old \cup { <<root, c>> : c \in classes })

\* Mutant: the loop assigns the bucket (classes_by_source[source] = ...) instead of
\* adding to it, so the last target to list a source wins.
RECURSIVE RegisterSourcesOverwrites(_, _, _, _)
RegisterSourcesOverwrites(cbs, todo, prods_json, root) ==
  IF todo = {} THEN cbs
  ELSE LET abs_src == CHOOSE a \in todo : TRUE
           source == RelPath(abs_src, BuildRoot)
       IN RegisterSourcesOverwrites(
            Put(cbs, source, { <<root, c>> : c \in prods_json[abs_src] }),
            todo \ {abs_src}, prods_json, root)

\* The for loop of _register_products over summary_json['products'].items().
RECURSIVE RegisterSources(_, _, _, _)
RegisterSources(cbs, todo, prods_json, root) ==
  IF todo = {} THEN cbs
  ELSE LET abs_src == CHOOSE a \in todo : TRUE
           source == RelPath(abs_src, BuildRoot)
       IN RegisterSources(AddAbsPaths(cbs, source, root, prods_json[abs_src]),
                          todo \ {abs_src}, prods_json, root)

\* What a summary's products section adds to the per-source map: (source, entry) pairs.
SourceEntries(prods_json, root) ==
  UNION { { <<RelPath(a, BuildRoot), <<root, c>>>> : c \in prods_json[a] } :
          a \in DOMAIN prods_json }

\* Mutant: an entry the map already holds for the target is kept (setdefault).
StoreDepsIfAbsent(deps, target, edges) ==
  IF target \in DOMAIN deps THEN deps ELSE Put(deps, target, edges)

\* product_deps_by_src[target] = summary_json['dependencies']
StoreDeps(deps, target, edges) == Put(deps, target, edges)

\* _parse_summary_json: open() and json.load().
ParseSummaryJson(file) ==
  IF ~file.exists THEN [error |-> "IOError", json |-> <<>>]
  ELSE IF ~file.parseable THEN [error |-> "ValueError", json |-> <<>>]
  ELSE [error |-> "none", json |-> file.json]

\* _register_products(target, target_cp_entry, summary_json_file, ...) on the store
\* prods, whose maps execute() fetched with get_data: the store after the call, the
\* exception it raised, and what it added for the target.
RegisterProducts(target, target_cp_entry, file, prods) ==
  LET parsed == ParseSummaryJson(file)
      json == parsed.json
      want_cbs == HasData(prods, "classes_by_source")
      want_deps == HasData(prods, "product_deps_by_src")
      cbs_fails == want_cbs /\ "products" \notin DOMAIN json
      p1 == IF want_cbs /\ ~cbs_fails
              THEN Put(prods, "classes_by_source",
                       RegisterSources(prods["classes_by_source"], DOMAIN json.products,
                                       json.products, target_cp_entry))
              ELSE prods
      c1 == IF want_cbs /\ ~cbs_fails
              THEN Put(<<>>, "classes_by_source",
                       SourceEntries(json.products, target_cp_entry))
              ELSE <<>>
      deps_fails == want_deps /\ "dependencies" \notin DOMAIN json
      p2 == IF want_deps /\ ~deps_fails
              THEN Put(p1, "product_deps_by_src",
                       StoreDeps(p1["product_deps_by_src"], target, json.dependencies))
              ELSE p1
      c2 == IF want_deps /\ ~deps_fails
              THEN Put(c1, "product_deps_by_src", json.dependencies)
              ELSE c1
  IN IF parsed.error # "none"
       THEN [products |-> prods, contrib |-> <<>>,
             error |-> [kind |-> parsed.error, target |-> target, exit_code |-> 0]]
     ELSE IF cbs_fails
       THEN [products |-> prods, contrib |-> <<>>,
             error |-> [kind |-> "KeyError", target |-> target, exit_code |-> 0]]
     ELSE IF deps_fails
       THEN [products |-> p1, contrib |-> c1,
             error |-> [kind |-> "KeyError", target |-> target, exit_code |-> 0]]
     ELSE [products |-> p2, contrib |-> c2, error |-> NoError]

\* ------------------------------------------------- sort task
\* The targets of the build graph, and the dependency edges a graph may hold:
\* <<a, b>> says a depends on b. The edge from 1 to NumNodes closes cycles.
Nodes == 1..NumNodes

CandidateEdges == { e \in Nodes \X Nodes : e[1] > e[2] } \cup { <<1, NumNodes>> }

Dependencies(graph, t) == { d \in Nodes : <<t, d>> \in graph }

\* The targets reachable from S through dependency edges, S included.
RECURSIVE Closure(_, _)
Closure(graph, S) ==
  LET next == S \cup UNION { Dependencies(graph, t) : t \in S }
  IN IF next = S THEN S ELSE Closure(graph, next)

HasCycle(graph, S) ==
  \E t \in Closure(graph, S) : t \in Closure(graph, Dependencies(graph, t))

\* The orders sort_targets may return for an acyclic graph: the closure of the
\* targets, each once, every target before the targets it depends on.
SortOrders(graph, S) ==
  LET closure == Closure(graph, S)
  IN { o \in [1..Cardinality(closure) -> closure] :
         /\ \A i, j \in DOMAIN o : o[i] = o[j] => i = j
         /\ \A i, j \in DOMAIN o : <<o[i], o[j]>> \in graph => i < j }

\* sort_targets(targets), with order the sequence its tie-breaking settles on.
SortTargets(graph, targets, order) ==
  IF HasCycle(graph, targets) THEN [error |-> "CycleError", sorted |-> <<>>]
  ELSE [error |-> "none", sorted |-> order]

\* reversed(sorted_targets)
Reversed(s) == [i \in 1..Len(s) |-> s[Len(s) + 1 - i]]

\* Mutant: every sorted target is emitted, root or not.
ConsoleOutputUnfiltered(sort_result, reverse, target_roots) ==
  IF sort_result.error # "none" THEN [error |-> sort_result.error, out |-> <<>>]
  ELSE [error |-> "none",
        out |-> IF ~reverse THEN Reversed(sort_result.sorted) ELSE sort_result.sorted]

\* Mutant: the order is reversed whatever the option says.
ConsoleOutputAlwaysReversed(sort_result, reverse, target_roots) ==
  IF sort_result.error # "none" THEN [error |-> sort_result.error, out |-> <<>>]
  ELSE [error |-> "none",
        out |-> SelectSeq(Reversed(sort_result.sorted), LAMBDA t : t \in target_roots)]

\* Mutant: the roots are emitted in the caller's order before the sort is consulted.
ConsoleOutputBeforeSort(sort_result, reverse, target_roots) ==
  [error |-> sort_result.error,
   out |-> SelectSeq([i \in Nodes |-> i], LAMBDA t : t \in target_roots)]

\* console_output: all that the generator yields, and the exception that ended it.
ConsoleOutput(sort_result, reverse, target_roots) ==
  IF sort_result.error # "none" THEN [error |-> sort_result.error, out |-> <<>>]
  ELSE LET sorted_targets == IF ~reverse THEN Reversed(sort_result.sorted)
                             ELSE sort_result.sorted
       IN [error |-> "none",
           out |-> SelectSeq(sorted_targets, LAMBDA t : t \in target_roots)]

\* ------------------------------------------------- invalidation framework
\* invalidation_check.all_vts: one versioned target per target, in some order.
Orders == { o \in [1..NumTargets -> Targets] : \A i, j \in 1..NumTargets : o[i] = o[j] => i = j }

\* vt.valid: the framework has recorded the target's current fingerprint as valid.
VtValid == [t \in Targets |-> lastValid[t] = fingerprint[t]]

\* Leaving the with block normally marks every invalid target valid (vt.update()); an
\* exception leaves the framework's record as it was.
UpdatedKeys == [t \in Targets |-> IF vt_valid[t] THEN lastValid[t] ELSE fingerprint[t]]

\* _summary_json_file(vt): summary.json in vt.results_dir, the results dir of the
\* target's cache key.
SummaryJsonFile(t) == <<t, fingerprint[t]>>

\* Mutant: extraction runs for every target, valid or not.
ShouldExtractAlways(t) == t \in Targets

\* Line 103: extraction is for the targets the invalidation check reports invalid.
ShouldExtract(t) == ~vt_valid[t]

\* An entry of the run's log: what happened, for which target, with which exit status.
Event(ev, t, code) == [ev |-> ev, t |-> t, code |-> code]

\* -------------------------------------------------------------- actions
\* Before the first run: nothing on disk, nothing recorded valid.
InitRest ==
  /\ pc = "idle"
  /\ all_vts = <<>>
  /\ vt_valid = [t \in Targets |-> FALSE]
  /\ idx = 0
  /\ fingerprint = [t \in Targets |-> 1]
  /\ lastValid = [t \in Targets |-> 0]
  /\ summaryFile = [t \in Targets |-> NoFile]
  /\ toolArgs = NoArgs
  /\ error = NoError
  /\ log = <<>>
  /\ contrib = [t \in Targets |-> <<>>]
  /\ prev = NoPrev
  /\ invoked = {}
  /\ reinvoked = FALSE

\* A pants run with a fresh product store and some set of required product kinds.
Init ==
  /\ required \in SUBSET Kinds
  /\ products = <<>>
  /\ upstream = NoUpstream
  /\ sortTask = NoSort
  /\ InitRest

\* The store of the first run may instead already hold a per-target map, with an
\* entry for every target, left there before execute() runs: safe_create_data keeps it.
PriorDeps == [t \in Targets |-> <<"edges", t, 0>>]

InitPrepopulated ==
  /\ required \in SUBSET Kinds
  /\ products \in { <<>>, Put(<<>>, "product_deps_by_src", PriorDeps) }
  /\ upstream = NoUpstream
  /\ sortTask = NoSort
  /\ InitRest

\* execute(), lines 84-85: nothing is required, return immediately.
ExecuteReturn ==
  /\ pc = "idle"
  /\ ~CreateProductsIfShouldRun(products).should_run
  /\ products' = CreateProductsIfShouldRun(products).products
  /\ pc' = "done"
  /\ UNCHANGED <<sortTask, upstream>>
  /\ UNCHANGED <<required, all_vts, vt_valid, idx, fingerprint, lastValid, summaryFile,
                 toolArgs, error, log, contrib, prev, invoked, reinvoked>>

\* execute(), lines 84-98: create the maps and enter the invalidated block.
ExecuteEnter ==
  /\ pc = "idle"
  /\ CreateProductsIfShouldRun(products).should_run
  /\ products' = CreateProductsIfShouldRun(products).products
  /\ \E o \in Orders : all_vts' = o
  /\ vt_valid' = VtValid
  /\ idx' = 1
  /\ pc' = "loop"
  /\ UNCHANGED <<sortTask, upstream>>
  /\ UNCHANGED <<required, fingerprint, lastValid, summaryFile, toolArgs, error, log,
                 contrib, prev, invoked, reinvoked>>

\* Lines 105-109 for the target t whose summary file holds `file`, after the events
\* lg: merge, then move to the next versioned target; an exception of the merge ends
\* the run.
Register(t, file, lg) ==
  LET r == RegisterProducts(t, ZincAnalysis(t)[1], file, products)
  IN /\ products' = r.products
     /\ contrib' = [contrib EXCEPT ![t] = r.contrib]
     /\ IF r.error = NoError
          THEN /\ log' = Append(lg, Event("merge", t, 0))
               /\ idx' = idx + 1
               /\ pc' = "loop"
               /\ UNCHANGED error
          ELSE /\ log' = Append(lg, Event("merge_error", t, 0))
               /\ error' = r.error
               /\ pc' = "failed"
               /\ UNCHANGED idx

\* Mutant: a cache hit skips the merge as well as the extraction.
LoopValidSkipsMerge ==
  /\ pc = "loop"
  /\ idx <= Len(all_vts)
  /\ ~ShouldExtract(all_vts[idx])
  /\ idx' = idx + 1
  /\ UNCHANGED <<sortTask, upstream>>
  /\ UNCHANGED <<pc, required, products, all_vts, vt_valid, fingerprint, lastValid,
                 summaryFile, toolArgs, error, log, contrib, prev, invoked, reinvoked>>

\* One iteration of the for loop for a valid target: no extraction, only the merge.
LoopValid ==
  /\ pc = "loop"
  /\ idx <= Len(all_vts)
  /\ ~ShouldExtract(all_vts[idx])
  /\ Register(all_vts[idx], summaryFile[all_vts[idx]], log)
  /\ UNCHANGED <<sortTask, upstream>>
  /\ UNCHANGED <<required, all_vts, vt_valid, fingerprint, lastValid, summaryFile,
                 toolArgs, prev, invoked, reinvoked>>

\* One iteration for an invalid target, up to the blocking runjava() call. With
\* `counted`, the invocation is also counted in the history variable invocations.
\* Mutant: the tool is started and the loop goes on without waiting for it.
ExtractAnalysisAsync(counted) ==
  /\ pc = "loop"
  /\ idx <= Len(all_vts)
  /\ ShouldExtract(all_vts[idx])
  /\ log' = Append(log, Event("invoke", all_vts[idx], 0))
  /\ idx' = idx + 1
  /\ UNCHANGED <<sortTask, upstream>>
  /\ UNCHANGED <<pc, required, products, all_vts, vt_valid, fingerprint, lastValid,
                 summaryFile, toolArgs, error, contrib, prev, invoked, reinvoked>>

ExtractAnalysisOf(counted) ==
  /\ pc = "loop"
  /\ idx <= Len(all_vts)
  /\ ShouldExtract(all_vts[idx])
  /\ LET t == all_vts[idx]
     IN /\ toolArgs' = ExtractArgs(t, SummaryJsonFile(t))
        /\ invoked' = IF counted THEN invoked \cup {t} ELSE invoked
        /\ reinvoked' = IF counted THEN reinvoked \/ t \in invoked ELSE reinvoked
        /\ log' = Append(log, Event("invoke", t, 0))
  /\ pc' = "tool"
  /\ UNCHANGED <<sortTask, upstream>>
  /\ UNCHANGED <<required, products, all_vts, vt_valid, idx, fingerprint, lastValid,
                 summaryFile, error, contrib, prev>>

ExtractAnalysis == ExtractAnalysisOf(FALSE)

CountedExtractAnalysis == ExtractAnalysisOf(TRUE)

\* The tool wrote the summary and exited 0: _extract_analysis returns and the
\* iteration goes on to the merge.
ToolSucceedsOf(conforming) ==
  /\ pc = "tool"
  /\ LET t == all_vts[idx]
         json == ToolSummary(t, toolArgs.summary_json[2])
     IN \E written \in IF conforming THEN {CompleteFile(json)} ELSE WrittenFiles(json) :
          /\ summaryFile' = [summaryFile EXCEPT ![t] = written]
          /\ Register(t, written, Append(log, Event("extracted", t, 0)))
  /\ toolArgs' = NoArgs
  /\ UNCHANGED <<sortTask, upstream>>
  /\ UNCHANGED <<required, all_vts, vt_valid, fingerprint, lastValid, prev, invoked,
                 reinvoked>>

\* The tool keeps its contract: exit status 0 and a summary of the documented schema.
ToolSucceeds == ToolSucceedsOf(TRUE)

\* The tool exits with status 0 whatever it wrote.
ToolExitsZero == ToolSucceedsOf(FALSE)

\* Mutant: a non-zero exit status is logged and the loop goes on to the next target.
ToolFailsContinues ==
  /\ pc = "tool"
  /\ \E result \in FailureCodes :
       log' = Append(log, Event("tool_failed", all_vts[idx], result))
  /\ pc' = "loop"
  /\ idx' = idx + 1
  /\ toolArgs' = NoArgs
  /\ UNCHANGED <<sortTask, upstream>>
  /\ UNCHANGED <<required, products, all_vts, vt_valid, fingerprint, lastValid, summaryFile,
                 error, contrib, prev, invoked, reinvoked>>

\* The tool exited with a non-zero status: lines 130-132 raise, and the exception
\* leaves execute().
ToolFails ==
  /\ pc = "tool"
  /\ \E result \in FailureCodes :
       /\ error' = RaiseTaskError(all_vts[idx], result)
       /\ log' = Append(log, Event("tool_failed", all_vts[idx], result))
  /\ pc' = "failed"
  /\ toolArgs' = NoArgs
  /\ UNCHANGED <<sortTask, upstream>>
  /\ UNCHANGED <<required, products, all_vts, vt_valid, idx, fingerprint, lastValid,
                 summaryFile,
                 contrib, prev, invoked, reinvoked>>

\* Mutant: the interruption is swallowed and the loop goes on to the next target.
ToolInterruptedSwallowed ==
  /\ pc = "tool"
  /\ \E f \in {summaryFile[all_vts[idx]], PartialFile} :
       summaryFile' = [summaryFile EXCEPT ![all_vts[idx]] = f]
  /\ log' = Append(log, Event("interrupt", all_vts[idx], 0))
  /\ pc' = "loop"
  /\ idx' = idx + 1
  /\ toolArgs' = NoArgs
  /\ UNCHANGED <<sortTask, upstream>>
  /\ UNCHANGED <<required, products, all_vts, vt_valid, fingerprint, lastValid, error,
                 contrib, prev, invoked, reinvoked>>

\* The run is interrupted or crashes while the tool runs: the summary is left as it
\* was or half-written.
ToolInterrupted ==
  /\ pc = "tool"
  /\ error' = [kind |-> "KeyboardInterrupt", target |-> 0, exit_code |-> 0]
  /\ \E f \in {summaryFile[all_vts[idx]], PartialFile} :
       summaryFile' = [summaryFile EXCEPT ![all_vts[idx]] = f]
  /\ log' = Append(log, Event("interrupt", all_vts[idx], 0))
  /\ pc' = "interrupted"
  /\ toolArgs' = NoArgs
  /\ UNCHANGED <<sortTask, upstream>>
  /\ UNCHANGED <<required, products, all_vts, vt_valid, idx, fingerprint, lastValid,
                 contrib, prev, invoked, reinvoked>>

\* The for loop is exhausted: the with block exits normally and execute() returns.
LoopExit ==
  /\ pc = "loop"
  /\ idx > Len(all_vts)
  /\ lastValid' = UpdatedKeys
  /\ pc' = "done"
  /\ UNCHANGED <<sortTask, upstream>>
  /\ UNCHANGED <<required, products, all_vts, vt_valid, idx, fingerprint, summaryFile,
                 toolArgs, error, log, contrib, prev, invoked, reinvoked>>

\* The next pants run: a fresh product store, its own required products, and sources
\* that may have changed (a change gives a target a fingerprint not seen before).
NewRunOf(recorded) ==
  /\ pc \in {"done", "failed", "interrupted"}
  /\ \E changed \in SUBSET { t \in Targets : fingerprint[t] < MaxFp } :
       /\ fingerprint' = [t \in Targets |-> IF t \in changed THEN fingerprint[t] + 1
                                            ELSE fingerprint[t]]
       /\ invoked' = invoked \ changed
       /\ summaryFile' = [t \in Targets |-> IF t \in changed THEN NoFile ELSE summaryFile[t]]
       /\ prev' = IF recorded /\ pc = "done" /\ required # {}
                    THEN [ok |-> TRUE, required |-> required, same |-> Targets \ changed,
                          contrib |-> [t \in Targets |-> IF t \in changed THEN <<>>
                                                         ELSE contrib[t]]]
                    ELSE NoPrev
  /\ required' \in SUBSET Kinds
  /\ products' = <<>>
  /\ all_vts' = <<>>
  /\ vt_valid' = [t \in Targets |-> FALSE]
  /\ idx' = 0
  /\ error' = NoError
  /\ log' = <<>>
  /\ contrib' = [t \in Targets |-> <<>>]
  /\ pc' = "idle"
  /\ UNCHANGED <<sortTask, upstream>>
  /\ UNCHANGED <<lastValid, toolArgs, reinvoked>>

NewRun == NewRunOf(FALSE)

RecordedNewRun == NewRunOf(TRUE)

Next ==
  \/ ExecuteReturn
  \/ ExecuteEnter
  \/ LoopValid
  \/ ExtractAnalysis
  \/ ToolSucceeds
  \/ ToolFails
  \/ ToolInterrupted
  \/ LoopExit
  \/ NewRun

Spec == Init /\ [][Next]_vars

\* The same program, its first run possibly on a store that already holds entries.
SpecPrepopulated == InitPrepopulated /\ [][Next]_vars

\* The resolution of upstream analysis on its own: any classpath of at most
\* MaxClasspath entries, any zinc_analysis of at most MaxZinc targets.
ClasspathEntries == {"libX.jar", "lib1.jar", "lib2.jar"}

AnalysisFiles == {"1.analysis", "2.analysis"}

SeqsUpTo(S, n) == UNION { [1..k -> S] : k \in 0..n }

ZincTriples == { <<"classes", e, a>> : e \in ClasspathEntries, a \in AnalysisFiles }

InitUpstream ==
  /\ required = {}
  /\ products = <<>>
  /\ upstream \in { [NoUpstream EXCEPT !.target_classpath = cp, !.zinc_values = zv] :
                      cp \in SeqsUpTo(ClasspathEntries, MaxClasspath),
                      zv \in SeqsUpTo(ZincTriples, MaxZinc) }
  /\ sortTask = NoSort
  /\ InitRest

\* What _extract_analysis computes for -analysis-map: analysis_by_cp_entry, the list
\* of upstream pairs, and the joined argument.
ResolveUpstream ==
  /\ ~upstream.resolved
  /\ LET pairs == UpstreamAnalysis(upstream.target_classpath,
                                   AnalysisByRuntimeEntry(upstream.zinc_values))
     IN upstream' = [upstream EXCEPT !.resolved = TRUE, !.pairs = pairs,
                                     !.analysis_map = AnalysisMapArg(pairs)]
  /\ UNCHANGED <<pc, required, products, all_vts, vt_valid, idx, fingerprint, lastValid,
                 summaryFile, toolArgs, error, log, contrib, prev, invoked, reinvoked,
                 sortTask>>

NextUpstream ==
  \/ ResolveUpstream

SpecUpstream == InitUpstream /\ [][NextUpstream]_vars

\* One run with a tool that may write a summary outside the schema. The run starts
\* after a run that completed, with the targets in valid unchanged since and the
\* others given a new fingerprint; the summary of a valid target passed the merge of
\* the run that wrote it, so it is JSON and holds at least one of the two sections.
MergedFiles(json) == { f \in WrittenFiles(json) : f.parseable }

InitMalformed ==
  /\ required \in SUBSET Kinds
  /\ products = <<>>
  /\ upstream = NoUpstream
  /\ sortTask = NoSort
  /\ pc = "idle"
  /\ all_vts = <<>>
  /\ vt_valid = [t \in Targets |-> FALSE]
  /\ idx = 0
  /\ lastValid = [t \in Targets |-> 1]
  /\ \E valid \in SUBSET Targets :
       /\ fingerprint = [t \in Targets |-> IF t \in valid THEN 1 ELSE 2]
       /\ summaryFile \in [Targets -> {NoFile} \cup UNION { MergedFiles(ToolSummary(t, 1)) :
                                                            t \in Targets }]
       /\ \A t \in Targets :
            IF t \in valid THEN summaryFile[t] \in MergedFiles(ToolSummary(t, 1))
            ELSE summaryFile[t] = NoFile
  /\ toolArgs = NoArgs
  /\ error = NoError
  /\ log = <<>>
  /\ contrib = [t \in Targets |-> <<>>]
  /\ prev = NoPrev
  /\ invoked = {}
  /\ reinvoked = FALSE

NextMalformed ==
  \/ ExecuteReturn
  \/ ExecuteEnter
  \/ LoopValid
  \/ ExtractAnalysis
  \/ ToolExitsZero
  \/ ToolFails
  \/ ToolInterrupted
  \/ LoopExit

SpecMalformed == InitMalformed /\ [][NextMalformed]_vars

\* The sort task on its own: any graph over the candidate edges, any targets, any
\* roots among them, and one order that sort_targets settles on for that graph.
InitSort ==
  /\ required = {}
  /\ products = <<>>
  /\ upstream = NoUpstream
  /\ sortTask \in UNION { { [NoSort EXCEPT !.graph = g, !.targets = ts,
                                            !.target_roots = rs, !.order = o] :
                              rs \in SUBSET ts,
                              o \in IF HasCycle(g, ts) THEN {<<>>} ELSE SortOrders(g, ts) } :
                            g \in SUBSET CandidateEdges, ts \in SUBSET Nodes }
  /\ InitRest

\* SortTargets.console_output(targets) under one value of --reverse, the generator
\* consumed to its end.
SortConsoleOutput ==
  /\ \E reverse \in BOOLEAN \ sortTask.ran :
       LET r == ConsoleOutput(SortTargets(sortTask.graph, sortTask.targets, sortTask.order),
                              reverse, sortTask.target_roots)
       IN sortTask' = [sortTask EXCEPT !.ran = @ \cup {reverse},
                                       !.out[reverse] = r.out,
                                       !.error[reverse] = r.error]
  /\ UNCHANGED <<pc, required, products, all_vts, vt_valid, idx, fingerprint, lastValid,
                 summaryFile, toolArgs, error, log, contrib, prev, invoked, reinvoked,
                 upstream>>

NextSort ==
  \/ SortConsoleOutput

SpecSort == InitSort /\ [][NextSort]_vars

\* The same program with the previous run's contributions recorded in prev.
NextRecorded ==
  \/ ExecuteReturn
  \/ ExecuteEnter
  \/ LoopValid
  \/ ExtractAnalysis
  \/ ToolSucceeds
  \/ ToolFails
  \/ ToolInterrupted
  \/ LoopExit
  \/ RecordedNewRun

SpecRecorded == Init /\ [][NextRecorded]_vars

\* The same program with the tool's invocations counted across runs.
NextCounted ==
  \/ ExecuteReturn
  \/ ExecuteEnter
  \/ LoopValid
  \/ CountedExtractAnalysis
  \/ ToolSucceeds
  \/ ToolFails
  \/ ToolInterrupted
  \/ LoopExit
  \/ NewRun

SpecCounted == Init /\ [][NextCounted]_vars

TypeOK ==
  /\ pc \in {"idle", "loop", "tool", "done", "failed", "interrupted"}
  /\ required \subseteq Kinds
  /\ DOMAIN products \subseteq Kinds
  /\ idx \in 0..(NumTargets + 1)

\* ------------------------------------------------------------ the claims
\* How often the run's log holds the event ev for target t, and where.
Count(ev, t) == Cardinality({ i \in 1..Len(log) : log[i].ev = ev /\ log[i].t = t })

Position(ev, t) == CHOOSE i \in 1..Len(log) : log[i].ev = ev /\ log[i].t = t

RunEnded == pc \in {"done", "failed", "interrupted"}

\* C1 as stated: at the end of any run that required a product kind, the tool was
\* invoked exactly once for each invalid target and never for a valid one.
C1_InvokedIffInvalidInAnyRun ==
  (RunEnded /\ required # {}) =>
    \A t \in Targets : Count("invoke", t) = IF vt_valid[t] THEN 0 ELSE 1

\* C1 amended: in every run the tool is invoked only for targets the invalidation check
\* reports invalid, and at most once for each; when the run completes without error,
\* it was invoked exactly once for each invalid target and never for a valid one.
C1_InvokedIffInvalid ==
  /\ \A t \in Targets : Count("invoke", t) <= IF vt_valid[t] THEN 0 ELSE 1
  /\ (pc = "done" /\ required # {}) =>
       \A t \in Targets : Count("invoke", t) = IF vt_valid[t] THEN 0 ELSE 1

\* A completed run with a cache hit and a cache miss.
C1_Witness ==
  /\ pc = "done"
  /\ required # {}
  /\ \E t \in Targets : vt_valid[t] /\ Count("invoke", t) = 0
  /\ \E t \in Targets : ~vt_valid[t] /\ Count("invoke", t) = 1

\* What the maps must hold once every target's current summary is merged, stated from
\* the summaries: sources relative to the build root (all lie under it), each output
\* tagged with the classes dir of the target that owns it.
ExpectedSource(abs_src) == SubSeq(abs_src, Len(BuildRoot) + 1, Len(abs_src))

CurrentSummary(t) == ToolSummary(t, fingerprint[t])

ExpectedOutputs(t, source) ==
  UNION { { <<ZincAnalysis(t)[1], c>> : c \in CurrentSummary(t).products[a] } :
          a \in { b \in DOMAIN CurrentSummary(t).products : ExpectedSource(b) = source } }

ExpectedClassesBySource ==
  [ source \in UNION { { ExpectedSource(a) : a \in DOMAIN CurrentSummary(t).products } :
                       t \in Targets } |->
      UNION { ExpectedOutputs(t, source) : t \in Targets } ]

ExpectedProductDeps == [t \in Targets |-> CurrentSummary(t).dependencies]

\* C2: in a run that completes without error every target of all_vts is merged exactly
\* once, an invalid target only after its extraction completed, and each requested map
\* ends as the union of all targets' summaries.
C2_EveryTargetMergedOnce ==
  (pc = "done" /\ required # {}) =>
    /\ { all_vts[i] : i \in 1..Len(all_vts) } = Targets
    /\ \A t \in Targets :
         /\ Count("merge", t) = 1
         /\ ~vt_valid[t] =>
              /\ Count("extracted", t) = 1
              /\ Position("extracted", t) < Position("merge", t)
    /\ "classes_by_source" \in required =>
         /\ HasData(products, "classes_by_source")
         /\ products["classes_by_source"] = ExpectedClassesBySource
    /\ "product_deps_by_src" \in required =>
         /\ HasData(products, "product_deps_by_src")
         /\ products["product_deps_by_src"] = ExpectedProductDeps

\* A completed run that required both maps and merged a cache hit and a cache miss.
C2_Witness ==
  /\ pc = "done"
  /\ required = Kinds
  /\ \E t \in Targets : vt_valid[t] /\ Count("merge", t) = 1
  /\ \E t \in Targets : ~vt_valid[t] /\ Count("merge", t) = 1

\* The step invokes the external tool for target t.
Invokes(t) == log' = Append(log, Event("invoke", t, 0))

\* C3 as stated: over any sequence of runs, aborted and interrupted ones included, the
\* tool is invoked at most once for a given target fingerprint.
C3_AtMostOncePerFingerprint == ~reinvoked

\* C3 amended: within a run the tool is invoked at most once per target, and once a run
\* has completed without error for a target's fingerprint no later run invokes the tool
\* for that fingerprint; a run that aborts or is interrupted records nothing as valid,
\* so the next run invokes the tool again for the same fingerprints.
C3_AtMostOnceOnceCompleted ==
  [][\A t \in Targets :
       Invokes(t) => /\ lastValid[t] # fingerprint[t]
                     /\ Count("invoke", t) = 0]_vars

\* A run that skipped a target because an earlier run had extracted its fingerprint,
\* after an aborted run had made the tool run twice for some fingerprint.
C3_Witness ==
  /\ pc = "done"
  /\ required # {}
  /\ reinvoked
  /\ \E t \in Targets : t \in invoked /\ vt_valid[t] /\ Count("invoke", t) = 0

\* C4 as stated: a target whose fingerprint is unchanged between two consecutive
\* successful runs is not extracted by the second run and contributes the same entries
\* to both maps as in the first.
C4_SameContributionAnyKinds ==
  (pc = "done" /\ prev.ok) =>
    \A t \in prev.same : Count("invoke", t) = 0 /\ contrib[t] = prev.contrib[t]

\* C4 amended: for a target whose fingerprint is unchanged between two consecutive
\* successful runs, of which the first required some product kind, the second run
\* invokes the tool zero times, and for every product kind required in both runs the
\* entries the target contributes to that kind's map are the same in both runs.
C4_SameContribution ==
  (pc = "done" /\ prev.ok) =>
    \A t \in prev.same :
      /\ Count("invoke", t) = 0
      /\ \A k \in required \cap prev.required :
           /\ k \in DOMAIN contrib[t]
           /\ k \in DOMAIN prev.contrib[t]
           /\ contrib[t][k] = prev.contrib[t][k]

\* Two consecutive completed runs requiring both maps: the first extracted the target,
\* the second merged it from the cached summary.
C4_Witness ==
  /\ pc = "done"
  /\ prev.ok
  /\ required = Kinds
  /\ prev.required = Kinds
  /\ \E t \in prev.same :
       /\ Count("invoke", t) = 0
       /\ Count("merge", t) = 1
       /\ DOMAIN contrib[t] = Kinds

\* C5: when neither product kind is required, execute() returns at once: no map is
\* created, the invalidation check is not run, the tool is not invoked and no summary
\* file is written, whatever the targets' validity.
C5_NothingRequiredNothingDone ==
  [][(pc = "idle" /\ required = {}) =>
       /\ pc' = "done"
       /\ products' = products
       /\ DOMAIN products' \cap Kinds = {}
       /\ UNCHANGED <<summaryFile, lastValid, all_vts, vt_valid, toolArgs, log>>]_vars

\* execute() has returned with nothing required while one target was valid and
\* another was not.
C5_Witness ==
  /\ pc = "done"
  /\ required = {}
  /\ log = <<>>
  /\ \E t \in Targets : lastValid[t] = fingerprint[t]
  /\ \E t \in Targets : lastValid[t] # fingerprint[t]

\* The targets merged so far in this run.
Merged == { t \in Targets : Count("merge", t) = 1 }

\* C6: with the per-source map requested, a source listed by several targets keeps
\* the outputs of every target merged so far, in whatever order they are merged, and
\* holds exactly the union of all targets' outputs once all are merged.
C6_SharedSourceKeepsAllOutputs ==
  HasData(products, "classes_by_source") =>
    \A source \in DOMAIN ExpectedClassesBySource :
      /\ \A t \in Merged :
           ExpectedOutputs(t, source) # {} =>
             /\ source \in DOMAIN products["classes_by_source"]
             /\ ExpectedOutputs(t, source) \subseteq products["classes_by_source"][source]
      /\ Merged = Targets =>
           products["classes_by_source"][source] =
             UNION { ExpectedOutputs(t, source) : t \in Targets }

\* Two targets listing the shared source are merged, the higher-numbered one first,
\* and the source's entry holds outputs of both.
C6_Witness ==
  /\ HasData(products, "classes_by_source")
  /\ Len(all_vts) >= 2
  /\ all_vts[1] > all_vts[2]
  /\ {all_vts[1], all_vts[2]} \subseteq Merged
  /\ \A t \in {all_vts[1], all_vts[2]} :
       /\ ExpectedOutputs(t, <<"src", "Shared.scala">>) # {}
       /\ ExpectedOutputs(t, <<"src", "Shared.scala">>)
            \subseteq products["classes_by_source"][<<"src", "Shared.scala">>]

\* The run ended because the tool exited with a non-zero status.
ToolFailed == pc = "failed" /\ log # <<>> /\ log[Len(log)].ev = "tool_failed"

\* C8: when the tool exits non-zero for a target, _extract_analysis fails with the
\* TaskError that names the target and carries the tool's exit code, and with no
\* other kind of error.
C8_TaskErrorOnToolFailure ==
  ToolFailed =>
    /\ error.kind = "TaskError"
    /\ error.target = log[Len(log)].t
    /\ error.exit_code = log[Len(log)].code

\* C9: after a run aborted by a non-zero exit of the tool, the product maps hold no
\* contribution of the targets merged earlier in that run.
C9_AllOrNothing ==
  ToolFailed => \A k \in DOMAIN products : DOMAIN products[k] = {}

\* The step merges the summary of target t.
Merges(t) == Len(log') > Len(log) /\ log'[Len(log')] = Event("merge", t, 0)

\* C7: with the per-target map requested, a merge stores the summary's dependency
\* edges as they are under the target's key, in place of any entry the map held for
\* it, and changes no other target's entry; when the run completes, the map holds one
\* entry for each target processed and no other.
C7_DepsStoredUnderTarget ==
  []["product_deps_by_src" \in required =>
       /\ \A t \in Targets :
            Merges(t) =>
              /\ DOMAIN products'["product_deps_by_src"] =
                   DOMAIN products["product_deps_by_src"] \cup {t}
              /\ products'["product_deps_by_src"][t] = summaryFile'[t].json.dependencies
              /\ \A u \in DOMAIN products["product_deps_by_src"] \ {t} :
                   products'["product_deps_by_src"][u] = products["product_deps_by_src"][u]
       /\ (pc = "loop" /\ pc' = "done") =>
            DOMAIN products'["product_deps_by_src"] = { all_vts[i] : i \in 1..Len(all_vts) }]_vars

\* One target's merge has replaced the entry the map held for it, while the entry of
\* a target not merged yet is still the one the map held before the run.
C7_Witness ==
  /\ "product_deps_by_src" \in required
  /\ HasData(products, "product_deps_by_src")
  /\ \E t \in Merged, u \in Targets \ Merged :
       /\ u \in DOMAIN products["product_deps_by_src"]
       /\ products["product_deps_by_src"][u] = PriorDeps[u]
       /\ products["product_deps_by_src"][t] = CurrentSummary(t).dependencies
       /\ products["product_deps_by_src"][t] # PriorDeps[t]

\* The artifact the entry-to-artifact map of the resolution holds for a classpath entry.
ArtifactOf ==
  [e \in { upstream.zinc_values[i][2] : i \in 1..Len(upstream.zinc_values) } |->
     LET last == CHOOSE i \in 1..Len(upstream.zinc_values) :
                   /\ upstream.zinc_values[i][2] = e
                   /\ \A j \in (i + 1)..Len(upstream.zinc_values) :
                        upstream.zinc_values[j][2] # e
     IN upstream.zinc_values[last][3]]

\* The positions of the classpath whose entry has an artifact.
WithArtifact ==
  { i \in 1..Len(upstream.target_classpath) : upstream.target_classpath[i] \in DOMAIN ArtifactOf }

\* The k-th of those positions, in classpath order.
NthWithArtifact(k) ==
  CHOOSE i \in WithArtifact : Cardinality({ j \in WithArtifact : j <= i }) = k

\* The first k expected pairs as the tool's argument reads them: entry:artifact,
\* separated by commas.
RECURSIVE ExpectedAnalysisMap(_)
ExpectedAnalysisMap(k) ==
  IF k = 0 THEN ""
  ELSE (IF k = 1 THEN "" ELSE ExpectedAnalysisMap(k - 1) \o ",")
       \o upstream.target_classpath[NthWithArtifact(k)] \o ":"
       \o ArtifactOf[upstream.target_classpath[NthWithArtifact(k)]]

\* C10: for every classpath and every entry-to-artifact map, the resolution yields
\* exactly the (entry, artifact) pairs of the classpath entries that have an artifact,
\* in classpath order; an entry without one is skipped, and nothing fails.
C10_UpstreamPairsInClasspathOrder ==
  upstream.resolved =>
    /\ error = NoError
    /\ Len(upstream.pairs) = Cardinality(WithArtifact)
    /\ \A k \in 1..Len(upstream.pairs) :
         upstream.pairs[k] = << upstream.target_classpath[NthWithArtifact(k)],
                                ArtifactOf[upstream.target_classpath[NthWithArtifact(k)]] >>
    /\ upstream.analysis_map = ExpectedAnalysisMap(Cardinality(WithArtifact))

\* A resolved classpath with an entry that has no artifact between two that have one.
C10_Witness ==
  /\ upstream.resolved
  /\ Len(upstream.target_classpath) = 3
  /\ WithArtifact = {1, 3}
  /\ Len(upstream.pairs) = 2
  /\ upstream.pairs[1][1] # upstream.pairs[2][1]

\* The step is a merge of target t's summary that raised.
MergeFails(t) == Len(log') > Len(log) /\ log'[Len(log')] = Event("merge_error", t, 0)

\* C11: a summary file that exists but is not of the documented schema (not JSON, no
\* products section, no dependencies section) aborts the run with an error, and the
\* failed merge has changed neither the per-source map nor the per-target map.
C11_MalformedSummaryNotApplied ==
  [][\A t \in Targets :
       (MergeFails(t) /\ summaryFile'[t].exists) =>
         /\ pc' = "failed"
         /\ error' # NoError
         /\ products' = products]_vars

\* Target d is a dependency of target t in the sort task's graph, direct or not.
DependsOn(t, d) == d \in Closure(sortTask.graph, Dependencies(sortTask.graph, t))

\* The position of target t in a sequence that holds it once.
IndexOf(s, t) == CHOOSE i \in 1..Len(s) : s[i] = t

Emitted(reverse) == { sortTask.out[reverse][i] : i \in 1..Len(sortTask.out[reverse]) }

\* C12: on an acyclic graph, with --reverse true, every dependency of an emitted
\* target that is emitted too comes before it.
C12_ReverseEmitsDependenciesFirst ==
  (TRUE \in sortTask.ran /\ sortTask.error[TRUE] = "none") =>
    \A t, d \in Emitted(TRUE) :
      DependsOn(t, d) => IndexOf(sortTask.out[TRUE], d) < IndexOf(sortTask.out[TRUE], t)

\* Both option values have run on the graph without an error.
BothSorted == sortTask.ran = BOOLEAN /\ \A r \in BOOLEAN : sortTask.error[r] = "none"

\* C13: on an acyclic graph, for any roots, the output with --reverse false is the
\* output with --reverse true read backwards: the same targets, each once, in the
\* opposite order.
C13_ForwardIsReverseReversed ==
  BothSorted =>
    /\ Len(sortTask.out[FALSE]) = Len(sortTask.out[TRUE])
    /\ Emitted(FALSE) = Emitted(TRUE)
    /\ Cardinality(Emitted(TRUE)) = Len(sortTask.out[TRUE])
    /\ \A i \in 1..Len(sortTask.out[TRUE]) :
         sortTask.out[FALSE][i] = sortTask.out[TRUE][Len(sortTask.out[TRUE]) + 1 - i]

\* Both outputs hold two roots, one a dependency of the other.
C13_Witness ==
  /\ BothSorted
  /\ Len(sortTask.out[TRUE]) >= 2
  /\ \E t, d \in Emitted(TRUE) : DependsOn(t, d)
  /\ sortTask.out[FALSE] # sortTask.out[TRUE]

\* The full sequence console_output iterates over under an option value.
FullSequence(reverse) ==
  IF reverse THEN sortTask.order
  ELSE [i \in 1..Len(sortTask.order) |-> sortTask.order[Len(sortTask.order) + 1 - i]]

\* C14: the output holds exactly the roots that occur in the sorted sequence, each
\* once, no other target, in the relative order they have in the full sequence.
C14_OnlyRootsInSortedOrder ==
  \A r \in sortTask.ran :
    sortTask.error[r] = "none" =>
      /\ Emitted(r) = sortTask.target_roots
                        \cap { sortTask.order[i] : i \in 1..Len(sortTask.order) }
      /\ Cardinality(Emitted(r)) = Len(sortTask.out[r])
      /\ \A i, j \in 1..Len(sortTask.out[r]) :
           i < j => IndexOf(FullSequence(r), sortTask.out[r][i])
                      < IndexOf(FullSequence(r), sortTask.out[r][j])

\* Two roots were emitted around a sorted target that is not a root.
C14_Witness ==
  /\ BothSorted
  /\ Len(sortTask.order) = 3
  /\ sortTask.order[2] \notin sortTask.target_roots
  /\ sortTask.out[TRUE] = << sortTask.order[1], sortTask.order[3] >>

\* Some targets reachable from the sort task's targets depend on each other in a circle.
CycleReachable ==
  \E S \in SUBSET Closure(sortTask.graph, sortTask.targets) :
    S # {} /\ \A t \in S : Dependencies(sortTask.graph, t) \cap S # {}

\* C15: on a graph with a cycle the sort fails with CycleError and emits no target,
\* whatever the value of --reverse.
C15_CycleEmitsNothing ==
  CycleReachable =>
    \A r \in sortTask.ran : sortTask.error[r] = "CycleError" /\ sortTask.out[r] = <<>>

\* A graph with a cycle and a root, sorted under both option values.
C15_Witness ==
  /\ CycleReachable
  /\ sortTask.target_roots # {}
  /\ sortTask.ran = BOOLEAN
  /\ \A r \in BOOLEAN : sortTask.error[r] = "CycleError"

\* C16: a non-zero exit of the tool for a target is the last thing the run does: the
\* tool was invoked once for that target and not again, the target's summary is not
\* merged, and no later target of the iteration is extracted or merged.
C16_StopsAtToolFailure ==
  \A i \in 1..Len(log) :
    log[i].ev = "tool_failed" =>
      /\ i = Len(log)
      /\ pc = "failed"
      /\ all_vts[idx] = log[i].t
      /\ Count("invoke", log[i].t) = 1
      /\ Count("merge", log[i].t) = 0
      /\ \A j \in (idx + 1)..Len(all_vts), k \in 1..Len(log) : log[k].t # all_vts[j]

\* The tool failed for a target that is not the last of the iteration, with a later
\* target that is invalid too.
C16_Witness ==
  /\ ToolFailed
  /\ idx < Len(all_vts)
  /\ \E j \in (idx + 1)..Len(all_vts) : ~vt_valid[all_vts[j]]

\* C17: with exactly one product kind required, the store never holds the map of the
\* other kind and no target's merge writes to it; the run that completes has created
\* the required map, merged every target into it, and invoked the tool once for every
\* invalid target.
C17_OnlyRequiredKindWritten ==
  Cardinality(required) = 1 =>
    /\ DOMAIN products \subseteq required
    /\ \A t \in Targets : DOMAIN contrib[t] \subseteq required
    /\ pc = "done" =>
         /\ DOMAIN products = required
         /\ \A t \in Targets :
              /\ DOMAIN contrib[t] = required
              /\ Count("merge", t) = 1
              /\ Count("invoke", t) = IF vt_valid[t] THEN 0 ELSE 1

\* A completed run with one kind required, one target extracted and one a cache hit.
C17_Witness ==
  /\ Cardinality(required) = 1
  /\ pc = "done"
  /\ \E t, u \in Targets : Count("invoke", t) = 1 /\ vt_valid[u]

\* The run was interrupted while the tool was extracting target t.
InterruptedAt(t) ==
  pc = "interrupted" /\ log # <<>> /\ log[Len(log)] = Event("interrupt", t, 0)

\* The summary file of target t is the whole summary of its current fingerprint.
SummaryWhole(t) == summaryFile[t] = CompleteFile(ToolSummary(t, fingerprint[t]))

\* C18: a target whose extraction was interrupted is not valid for the run that
\* follows; a target becomes valid only when a run completes in which its extraction
\* completed; and a merge without extraction happens only for a target recorded
\* valid, whose summary file is then whole. So no later run merges the summary of an
\* interrupted extraction as a cache hit.
C18_InterruptedNeverCacheHit ==
  [][\A t \in Targets :
       /\ InterruptedAt(t) => lastValid'[t] # fingerprint'[t]
       /\ (lastValid'[t] = fingerprint'[t] /\ lastValid[t] # fingerprint[t]) =>
            /\ pc = "loop" /\ pc' = "done"
            /\ Count("extracted", t) = 1
            /\ SummaryWhole(t)
       /\ (Merges(t) /\ pc = "loop") =>
            /\ lastValid[t] = fingerprint[t]
            /\ SummaryWhole(t)]_vars

\* A run is extracting again a target whose summary an interrupted run left
\* half-written.
C18_Witness ==
  /\ pc = "tool"
  /\ summaryFile[all_vts[idx]] = PartialFile
  /\ ~vt_valid[all_vts[idx]]

\* The position of target t in the iteration order of the run.
VtIndex(t) == CHOOSE k \in 1..Len(all_vts) : all_vts[k] = t

\* C19: within a run the targets are handled one at a time in the order of all_vts:
\* the events of the run follow that order, every target before the current one has
\* been merged with its extraction (if any) completed, no later target has been
\* touched, and the tool in progress is the current target's.
C19_OneTargetAtATime ==
  pc # "idle" =>
    /\ \A i, j \in 1..Len(log) : i < j => VtIndex(log[i].t) <= VtIndex(log[j].t)
    /\ \A k \in 1..Len(all_vts) :
         /\ k < idx => /\ Count("merge", all_vts[k]) = 1
                       /\ Count("invoke", all_vts[k]) = Count("extracted", all_vts[k])
         /\ k > idx => \A i \in 1..Len(log) : log[i].t # all_vts[k]
    /\ pc = "tool" => /\ toolArgs.summary_json[1] = all_vts[idx]
                      /\ Count("merge", all_vts[idx]) = 0

\* The second target's extraction is in progress after the first target was extracted
\* and merged.
C19_Witness ==
  /\ pc = "tool"
  /\ idx = 2
  /\ Count("extracted", all_vts[1]) = 1
  /\ Count("merge", all_vts[1]) = 1

\* The targets before the current position of the iteration.
Prefix == { all_vts[i] : i \in 1..Min(idx - 1, Len(all_vts)) }

\* What the summary file of target t lists for a source.
FileOutputs(t, source) ==
  UNION { { <<ZincAnalysis(t)[1], c>> : c \in summaryFile[t].json.products[a] } :
          a \in { b \in DOMAIN summaryFile[t].json.products : ExpectedSource(b) = source } }

\* The per-source map that holds the summaries of the targets in S and nothing else.
ClassesBySourceOf(S) ==
  [ source \in UNION { { ExpectedSource(a) : a \in DOMAIN summaryFile[t].json.products } :
                       t \in S } |->
      UNION { FileOutputs(t, source) : t \in S } ]

\* The per-target map that holds the summaries of the targets in S and nothing else.
ProductDepsOf(S) == [t \in S |-> summaryFile[t].json.dependencies]

\* The maps of the store are those of the targets in S for the per-source map and of
\* the targets in D for the per-target map.
MapsHold(S, D) ==
  /\ HasData(products, "classes_by_source") =>
       products["classes_by_source"] = ClassesBySourceOf(S)
  /\ HasData(products, "product_deps_by_src") =>
       products["product_deps_by_src"] = ProductDepsOf(D)

\* The run aborted in the merge of the current target after its sources were added.
MergeFailedHalfway ==
  /\ pc = "failed"
  /\ log # <<>> /\ log[Len(log)].ev = "merge_error"
  /\ HasData(products, "classes_by_source")
  /\ summaryFile[all_vts[idx]].parseable
  /\ "products" \in DOMAIN summaryFile[all_vts[idx]].json

====
